---- MODULE Spec2Model ----
(***************************************************************************)
(* DocForge: multi-tenant domain resolution and subdomain session          *)
(* authentication, as implemented by src/api/server.js (the data API) and  *)
(* src/frontend/server.js (the renderer).                                  *)
(*                                                                         *)
(* JavaScript strings are sequences of one-character strings, so that      *)
(* String.includes, String.startsWith, String.split and template literals  *)
(* are computed the way the code computes them.  The JavaScript value      *)
(* null is the one-element sequence Null, which is no string of            *)
(* characters.                                                             *)
(***************************************************************************)
EXTENDS Integers, Sequences, FiniteSets, TLC

(***************************************************************************)
(* Bounds of the model.                                                    *)
(***************************************************************************)
\* number of session tokens that are ever minted
MaxTokens == 1
\* number of documents ever inserted into the Credential collection, and
\* into the Page collection
MaxRecords == 1

\* the clock runs over the instants 0 and, for k in 1..MaxDays,
\* k*24h - 1ms and k*24h
MaxDays == 1

(***************************************************************************)
(* Strings.                                                                *)
(***************************************************************************)
Null == <<"null-value">>

Truthy(v) == v # Null /\ v # <<>>

\* `${v}` in a template literal
ToStr(v) == IF v = Null THEN <<"n", "u", "l", "l">> ELSE v

StartsWith(s, p) == Len(s) >= Len(p) /\ SubSeq(s, 1, Len(p)) = p

Includes(s, sub) ==
    \E i \in 1..(Len(s) - Len(sub) + 1) : SubSeq(s, i, i + Len(sub) - 1) = sub

\* the positions of the dots of s
Dots(s) == {i \in 1..Len(s) : s[i] = "."}

\* the least element of a non-empty set of numbers
Min(S) == CHOOSE i \in S : \A j \in S : i <= j

\* s.split('.')[0]
SplitFirst(s) == IF Dots(s) = {} THEN s ELSE SubSeq(s, 1, Min(Dots(s)) - 1)

\* s.split('.')
RECURSIVE Split(_)
Split(s) ==
    LET dots == Dots(s)
    IN  IF dots = {} THEN <<s>>
        ELSE LET d == Min(dots)
             IN  <<SubSeq(s, 1, d - 1)>> \o Split(SubSeq(s, d + 1, Len(s)))

Alnum ==
    {"a", "b", "c", "d", "e", "f", "g", "h", "i", "j", "k", "l", "m",
     "n", "o", "p", "q", "r", "s", "t", "u", "v", "w", "x", "y", "z",
     "A", "B", "C", "D", "E", "F", "G", "H", "I", "J", "K", "L", "M",
     "N", "O", "P", "Q", "R", "S", "T", "U", "V", "W", "X", "Y", "Z",
     "0", "1", "2", "3", "4", "5", "6", "7", "8", "9"}

\* /^[a-zA-Z0-9][a-zA-Z0-9-]{0,61}[a-zA-Z0-9]$/
isValidSubdomain(s) ==
    /\ Len(s) >= 2
    /\ Len(s) <= 63
    /\ s[1] \in Alnum
    /\ s[Len(s)] \in Alnum
    /\ \A i \in 2..(Len(s) - 1) : s[i] \in Alnum \cup {"-"}

\* /^L(?:\.L)*$/ where L is the pattern of isValidSubdomain
isValidDomain(s) ==
    LET parts == Split(s)
    IN  \A i \in 1..Len(parts) : isValidSubdomain(parts[i])

ParentDomain == <<".", "d", "o", "c", "f", "o", "r", "g", "e", ".", "c", "o", "m">>

CookiePrefix ==
    <<"s", "u", "b", "d", "o", "m", "a", "i", "n", "_", "a", "u", "t", "h", "_">>

\* `subdomain_auth_${label}`
CookieName(label) == CookiePrefix \o ToStr(label)

LoginPath ==
    <<"/", "s", "u", "b", "d", "o", "m", "a", "i", "n", "-", "l", "o", "g", "i", "n">>

\* `/subdomain-login?subdomain=${label}`
LoginRedirect(label) ==
    LoginPath \o <<"?", "s", "u", "b", "d", "o", "m", "a", "i", "n", "=">> \o ToStr(label)

ExemptPrefixes ==
    { <<"/", "a", "p", "i", "/">>,
      <<"/", "c", "s", "s", "/">>,
      <<"/", "j", "s", "/">>,
      <<"/", "i", "m", "a", "g", "e", "s", "/">> }

\* the skip list with '/images/' left out
IsExemptPath_ImagesForgotten(path) ==
    \E p \in ExemptPrefixes \ {<<"/", "i", "m", "a", "g", "e", "s", "/">>} : StartsWith(path, p)

\* req.path.startsWith('/api/') || ... || req.path.startsWith('/images/')
IsExemptPath(path) == \E p \in ExemptPrefixes : StartsWith(path, p)


(***************************************************************************)
(* The values the environment supplies.                                    *)
(***************************************************************************)
aa == <<"a", "a">>

Labels == {aa}

\* the names under which tenants register, in the order of their first use
TenantNames == <<"acme", "globex">>

\* the ids a tenant can get: the name of a tenant is unique
MaxTenants == Len(TenantNames)

\* a label isValidSubdomain rejects
BadLabel == <<"a">>

ddio == <<"d", "d", ".", "i", "o">>

Domains == {ddio, aa \o ParentDomain}

\* a domain isValidDomain rejects
BadDomain == <<"d", ".", "i", "o">>

\* a host that holds the parent domain in the middle, not at its end
LookalikeHost == aa \o ParentDomain \o <<".", "e", "v", "i", "l", ".", "i", "o">>

\* a label no tenant asks for
zz == <<"z", "z">>

Hosts == {l \o ParentDomain : l \in Labels} \cup Domains \cup {LookalikeHost}

pw1 == <<"s", "e", "c", "r", "e", "t", "1">>

pwShort == <<"a", "b", "c">>

pw2 == <<"s", "e", "c", "r", "e", "t", "2">>

\* a password field that is the empty string
pwEmpty == <<>>

\* the labels and passwords a login may carry
LoginLabels == Labels \cup {zz}

LoginPasswords == {pw1, pwShort}

\* brandColor: { type: String, default: '#3B82F6' }
DefaultColor == <<"#", "3", "B", "8", "2", "F", "6">>

\* the brand colours a caller may send; Null when the field is left out
BrandColors == {Null, <<"#", "0", "0", "0">>}

\* req.body of the data routes: any of the required field of the schema
\* (serviceName of a credential, title of a page) and tenantId may be there
Bodies(field) ==
    { [f \in {field} |-> "v1"] , <<>> }
    \cup UNION { { [f \in {field, "tenantId"} |-> IF f = field THEN "v1" ELSE t],
                   [f \in {"tenantId"} |-> t] } : t \in 1..MaxTenants }

\* the names multer gives to uploaded files
FileNames == {<<"f", "1">>}

DigitChar == <<"0", "1", "2", "3", "4", "5", "6", "7", "8", "9">>

\* the k-th value returned by crypto.randomBytes(32).toString('hex') in
\* generateSubdomainToken; the values are taken to be pairwise different
Tok(k) == <<"t", "k">> \o <<DigitChar[k + 1]>>

\* the k-th API key issued by POST /api/tenant
Key(k) == <<"k", "e", "y">> \o <<DigitChar[k + 1]>>

Garbage == <<"g", "a", "r", "b", "a", "g", "e">>

ReqPaths ==
    { <<"/">>,
      LoginPath,
      <<"/", "a", "p", "i", "/", "x">>,
      <<"/", "c", "s", "s", "/", "x">>,
      <<"/", "j", "s", "/", "x">>,
      <<"/", "i", "m", "a", "g", "e", "s", "/", "x">> }

CookieNames == {CookieName(l) : l \in Labels \cup {Null}}

CookieValues == {Tok(k) : k \in 1..MaxTokens} \cup {Garbage}

\* req.cookies: no cookie, or one cookie
Jars == {<<>>} \cup {[n \in {name} |-> v] : name \in CookieNames, v \in CookieValues}

\* req.cookies[name]; undefined is rendered as Null (both are falsy)
JarGet(jar, name) == IF name \in DOMAIN jar THEN jar[name] ELSE Null

DayMs == 24 * 60 * 60 * 1000

Instants == {0} \cup UNION {{k * DayMs - 1, k * DayMs} : k \in 1..MaxDays}

(***************************************************************************)
(* State.                                                                  *)
(***************************************************************************)
VARIABLES
    tenants,            \* the Tenant collection; a tenant's _id is its index
    subdomainSessions,  \* the API process's Map: token -> session
    now,                \* Date.now()
    calls,              \* POST /api/tenant/domain calls in flight, per caller
    issued,             \* history: token -> instant of the login that minted it
    resp,               \* the response to the request handled last
    credentials,        \* the Credential collection; a record's _id is its index
    pages,              \* the Page collection; a record's _id is its index
    uploads             \* the names of the files in static/uploads

vars == <<tenants, subdomainSessions, now, calls, issued, resp, credentials, pages, uploads>>

NoTenant == 0

\* what is left of a document that deleteMany has removed: its _id is not
\* given to another document
Removed == [removed |-> TRUE]

\* the _ids of the documents of the Tenant collection
TenantIds == {t \in 1..Len(tenants) : tenants[t] # Removed}

\* 24 * 60 * 60 * 1000 at the login route
SessionTTL == 24 * 60 * 60 * 1000

NoCall == [pc |-> "idle", customDomain |-> Null, subdomain |-> Null]

NoResp == [op |-> "none", proc |-> "none", tenant |-> NoTenant, status |-> "none"]

Init ==
    /\ tenants = <<>>
    /\ subdomainSessions = <<>>
    /\ now = 0
    /\ calls = [t \in 1..MaxTenants |-> NoCall]
    /\ issued = <<>>
    /\ resp = NoResp
    /\ credentials = <<>>
    /\ pages = <<>>
    /\ uploads = {}

(***************************************************************************)
(* Tenant Directory queries.  Tenant.findOne without a sort returns one of *)
(* the matching documents; which one is not fixed by the code, so a query  *)
(* is the set of documents it may return.                                  *)
(***************************************************************************)
\* Tenant.findOne({ customDomain: host })
FindByCustomDomain(host) == {t \in TenantIds : tenants[t].customDomain = host}

\* Tenant.findOne({ subdomain: label })
FindBySubdomain(label) == {t \in TenantIds : tenants[t].subdomain = label}

\* Tenant.findOne({ apiKey })
FindByApiKey(key) == {t \in TenantIds : tenants[t].apiKey = key}


(***************************************************************************)
(* Domain Resolver.  The result is the set of values req.domainTenant may  *)
(* take: tenant ids, or NoTenant when the field is left unset.             *)
(***************************************************************************)
\* identifyTenantByDomain of the API server
ApiResolve(host) ==
    LET byCustom == FindByCustomDomain(host)
    IN  IF byCustom # {}
        THEN byCustom
        ELSE IF Includes(host, ParentDomain)
             THEN LET bySubdomain == FindBySubdomain(SplitFirst(host))
                  IN  IF bySubdomain # {} THEN bySubdomain ELSE {NoTenant}
             ELSE {NoTenant}

\* identifyTenantByDomain of the API server when a Tenant.findOne may throw:
\* the catch block calls next() with no tenant bound.  customUp and
\* subdomainUp say whether the first and the second lookup answer.
ApiResolveOrThrow(host, customUp, subdomainUp) ==
    IF ~customUp
    THEN {NoTenant}
    ELSE IF FindByCustomDomain(host) # {}
         THEN FindByCustomDomain(host)
         ELSE IF Includes(host, ParentDomain)
              THEN IF ~subdomainUp
                   THEN {NoTenant}
                   ELSE IF FindBySubdomain(SplitFirst(host)) # {}
                        THEN FindBySubdomain(SplitFirst(host))
                        ELSE {NoTenant}
              ELSE {NoTenant}

\* POST /api/tenant/by-domain as seen through apiCall, were apiCall to keep
\* answering from the directory when the request fails
ByDomain_AnswersDespiteFailure(domain, type, apiUp) ==
    LET found == IF type = "custom" THEN FindByCustomDomain(domain)
                 ELSE IF type = "subdomain" THEN FindBySubdomain(domain)
                 ELSE {}
    IN  IF found # {} THEN found ELSE {NoTenant}

\* POST /api/tenant/by-domain as seen through apiCall: the tenant in the
\* answer, or NoTenant when apiCall returns null (404, 500 or no answer)
ByDomain(domain, type, apiUp) ==
    LET found == IF type = "custom" THEN FindByCustomDomain(domain)
                 ELSE IF type = "subdomain" THEN FindBySubdomain(domain)
                 ELSE {}
    IN  IF apiUp /\ found # {} THEN found ELSE {NoTenant}

\* the resolving part of identifyTenantByDomain of the frontend, were it to
\* take the label only from a host that ends with the parent domain
FrontendResolve_SuffixAtEnd(host, apiUp) ==
    LET byCustom == ByDomain(host, "custom", apiUp)
    IN  IF byCustom # {NoTenant}
        THEN byCustom
        ELSE IF Len(host) >= Len(ParentDomain)
                /\ SubSeq(host, Len(host) - Len(ParentDomain) + 1, Len(host)) = ParentDomain
             THEN ByDomain(SplitFirst(host), "subdomain", apiUp)
             ELSE {NoTenant}

\* the resolving part of identifyTenantByDomain of the frontend, for a path
\* that is not skipped
FrontendResolve(host, apiUp) ==
    LET byCustom == ByDomain(host, "custom", apiUp)
    IN  IF byCustom # {NoTenant}
        THEN byCustom
        ELSE IF Includes(host, ParentDomain)
             THEN ByDomain(SplitFirst(host), "subdomain", apiUp)
             ELSE {NoTenant}

\* the resolving part of identifyTenantByDomain of the frontend when each
\* apiCall may fail on its own: the first lookup answers or not (customUp),
\* and so does the second (subdomainUp)
FrontendResolveEach(host, customUp, subdomainUp) ==
    LET byCustom == ByDomain(host, "custom", customUp)
    IN  IF byCustom # {NoTenant}
        THEN byCustom
        ELSE IF Includes(host, ParentDomain)
             THEN ByDomain(SplitFirst(host), "subdomain", subdomainUp)
             ELSE {NoTenant}

(***************************************************************************)
(* Access Gate.  A decision is EXEMPT (next() on a skipped path), ALLOW    *)
(* (next() otherwise) or CHALLENGE (res.redirect to target).               *)
(***************************************************************************)
Decision(kind, target) == [kind |-> kind, target |-> target]

\* the session test with session.expires >= Date.now()
SessionValid_ExpiryInclusive(sessionToken, t) ==
    /\ Truthy(sessionToken)
    /\ sessionToken \in DOMAIN subdomainSessions
    /\ subdomainSessions[sessionToken].tenantId = t
    /\ subdomainSessions[sessionToken].expires >= now

\* the session test of verifySubdomainAccess
SessionValid(sessionToken, t) ==
    /\ Truthy(sessionToken)
    /\ sessionToken \in DOMAIN subdomainSessions
    /\ subdomainSessions[sessionToken].tenantId = t
    /\ subdomainSessions[sessionToken].expires > now

\* verifySubdomainAccess with req.domainTenant = t
ApiGate(path, t, jar) ==
    IF IsExemptPath(path)
    THEN Decision("EXEMPT", <<>>)
    ELSE IF t # NoTenant
         THEN IF SessionValid(JarGet(jar, CookieName(tenants[t].subdomain)), t)
              THEN Decision("ALLOW", <<>>)
              ELSE Decision("CHALLENGE", LoginRedirect(tenants[t].subdomain))
         ELSE Decision("ALLOW", <<>>)

\* the gating part of identifyTenantByDomain of the frontend, were it to
\* look the token up in the Session Store of the API server
FrontendGate_ReadsSessionStore(path, t, jar) ==
    IF IsExemptPath(path)
    THEN Decision("EXEMPT", <<>>)
    ELSE IF /\ t # NoTenant
            /\ Truthy(tenants[t].subdomain)
            /\ Truthy(tenants[t].subdomainPassword)
         THEN IF path = LoginPath
              THEN Decision("EXEMPT", <<>>)
              ELSE IF ~SessionValid(JarGet(jar, CookieName(tenants[t].subdomain)), t)
                   THEN Decision("CHALLENGE", LoginRedirect(tenants[t].subdomain))
                   ELSE Decision("ALLOW", <<>>)
         ELSE Decision("ALLOW", <<>>)

\* the gating part of identifyTenantByDomain of the frontend, with the
\* resolved tenant t
FrontendGate(path, t, jar) ==
    IF IsExemptPath(path)
    THEN Decision("EXEMPT", <<>>)
    ELSE IF /\ t # NoTenant
            /\ Truthy(tenants[t].subdomain)
            /\ Truthy(tenants[t].subdomainPassword)
         THEN IF path = LoginPath
              THEN Decision("EXEMPT", <<>>)
              ELSE IF ~Truthy(JarGet(jar, CookieName(tenants[t].subdomain)))
                   THEN Decision("CHALLENGE", LoginRedirect(tenants[t].subdomain))
                   ELSE Decision("ALLOW", <<>>)
         ELSE Decision("ALLOW", <<>>)

\* the tenants the frontend may bind to a request
FrontendBind(path, host, apiUp) ==
    IF IsExemptPath(path) THEN {NoTenant} ELSE FrontendResolve(host, apiUp)

(***************************************************************************)
(* Requests that reach the gates.                                          *)
(***************************************************************************)
GateResp(proc, t, d) == [op |-> "gate", proc |-> proc, tenant |-> t, status |-> d.kind]

\* the responses of the API server's gate to the requests it may receive:
\* a path of ReqPaths, a host of Hosts, a cookie jar of Jars, each lookup
\* of the resolver answering or throwing
ApiResponses ==
    LET resolved == UNION {ApiResolveOrThrow(host, customUp, subdomainUp) :
                               host \in Hosts, customUp \in BOOLEAN, subdomainUp \in BOOLEAN}
    IN  UNION { { GateResp("api", t, ApiGate(path, t, jar)) :
                      path \in ReqPaths, jar \in Jars } : t \in resolved }

\* a request to the API server that reaches app.use(verifySubdomainAccess)
ApiRequest ==
    /\ resp' \in ApiResponses
    /\ UNCHANGED <<tenants, subdomainSessions, now, calls, issued, credentials, pages, uploads>>

\* the responses of the frontend's gate to the requests it may receive, the
\* API server answering each of its lookups or not
FrontendResponses ==
    LET resolved == UNION {FrontendResolveEach(host, customUp, subdomainUp) :
                               host \in Hosts, customUp \in BOOLEAN, subdomainUp \in BOOLEAN}
    IN  UNION { { GateResp("frontend", t, FrontendGate(path, t, jar)) :
                      t \in IF IsExemptPath(path) THEN {NoTenant} ELSE resolved,
                      jar \in Jars } : path \in ReqPaths }

\* a request to the frontend that reaches app.use(identifyTenantByDomain)
FrontendRequest ==
    /\ resp' \in FrontendResponses
    /\ UNCHANGED <<tenants, subdomainSessions, now, calls, issued, credentials, pages, uploads>>

(***************************************************************************)
(* Tenant Directory mutations.                                             *)
(***************************************************************************)
CallResp(op, t, status) == [op |-> op, proc |-> "api", tenant |-> t, status |-> status]

\* new Tenant({ name, domain, apiKey }) with the k-th API key
NewTenant(name, k) ==
    [name |-> name, apiKey |-> Key(k), customDomain |-> Null, subdomain |-> Null,
     subdomainPassword |-> Null, domainVerified |-> FALSE,
     domainSettings |-> [logoUrl |-> Null, brandColor |-> DefaultColor]]

\* POST /api/tenant; the unique index on name rejects a second tenant of a name
Register(name) ==
    /\ IF \E t \in TenantIds : tenants[t].name = name
       THEN /\ resp' = CallResp("register", NoTenant, "400")
            /\ UNCHANGED tenants
       ELSE /\ Len(tenants) < MaxTenants
            /\ tenants' = Append(tenants, NewTenant(name, Len(tenants) + 1))
            /\ resp' = CallResp("register", NoTenant, "200")
    /\ UNCHANGED <<subdomainSessions, now, calls, issued, credentials, pages, uploads>>

\* Tenant.findOne({ customDomain, _id: { $ne: tenant._id } }) finds a document
CustomDomainTaken(t, customDomain) ==
    \E u \in TenantIds : u # t /\ tenants[u].customDomain = customDomain

\* Tenant.findOne({ subdomain, _id: { $ne: tenant._id } }) finds a document
SubdomainTaken(t, subdomain) ==
    \E u \in TenantIds : u # t /\ tenants[u].subdomain = subdomain

\* the format checks of POST /api/tenant/domain
DomainFormatOk(customDomain, subdomain) ==
    /\ Truthy(customDomain) => isValidDomain(customDomain)
    /\ Truthy(subdomain) => isValidSubdomain(subdomain)

\* the update of POST /api/tenant/domain, were it to issue a new API key too
SaveDomain_NewApiKey(t, customDomain, subdomain) ==
    [tenants EXCEPT ![t].customDomain = IF Truthy(customDomain) THEN customDomain ELSE Null,
                    ![t].subdomain = IF Truthy(subdomain) THEN subdomain ELSE Null,
                    ![t].domainVerified = FALSE,
                    ![t].apiKey = Key(0)]

\* the assignments of the domain route without the reset of domainVerified
SaveDomain_KeepsVerified(t, customDomain, subdomain) ==
    [tenants EXCEPT ![t].customDomain = IF Truthy(customDomain) THEN customDomain ELSE Null,
                    ![t].subdomain = IF Truthy(subdomain) THEN subdomain ELSE Null]

\* tenant.customDomain = ...; tenant.subdomain = ...; tenant.domainVerified = false;
\* await tenant.save()
SaveDomain(t, customDomain, subdomain) ==
    [tenants EXCEPT ![t].customDomain = IF Truthy(customDomain) THEN customDomain ELSE Null,
                    ![t].subdomain = IF Truthy(subdomain) THEN subdomain ELSE Null,
                    ![t].domainVerified = FALSE]

\* POST /api/tenant/domain, handled without another request in between
SetDomain(key, customDomain, subdomain) ==
    /\ IF FindByApiKey(key) = {}
       THEN /\ resp' = CallResp("domain", NoTenant, "401")
            /\ UNCHANGED tenants
       ELSE \E t \in FindByApiKey(key) :
            IF \/ ~DomainFormatOk(customDomain, subdomain)
               \/ Truthy(customDomain) /\ CustomDomainTaken(t, customDomain)
               \/ Truthy(subdomain) /\ SubdomainTaken(t, subdomain)
            THEN /\ resp' = CallResp("domain", NoTenant, "400")
                 /\ UNCHANGED tenants
            ELSE /\ tenants' = SaveDomain(t, customDomain, subdomain)
                 /\ resp' = CallResp("domain", NoTenant, "200")
    /\ UNCHANGED <<subdomainSessions, now, calls, issued, credentials, pages, uploads>>

\* POST /api/tenant/subdomain-password, were it to revoke the sessions of
\* the tenant whose password it changes
SetSubdomainPassword_RevokesSessions(key, password) ==
    /\ IF FindByApiKey(key) = {}
       THEN /\ resp' = CallResp("password", NoTenant, "401")
            /\ UNCHANGED <<tenants, subdomainSessions>>
       ELSE \E t \in FindByApiKey(key) :
            IF ~Truthy(password) \/ Len(password) < 6
            THEN /\ resp' = CallResp("password", NoTenant, "400")
                 /\ UNCHANGED <<tenants, subdomainSessions>>
            ELSE /\ tenants' = [tenants EXCEPT ![t].subdomainPassword = password]
                 /\ subdomainSessions' =
                        [token \in {k \in DOMAIN subdomainSessions :
                                       subdomainSessions[k].tenantId # t}
                            |-> subdomainSessions[token]]
                 /\ resp' = CallResp("password", NoTenant, "200")
    /\ UNCHANGED <<now, calls, issued, credentials, pages, uploads>>

\* POST /api/tenant/subdomain-password without the test of the password
SetSubdomainPassword_AcceptsAny(key, password) ==
    /\ IF FindByApiKey(key) = {}
       THEN /\ resp' = CallResp("password", NoTenant, "401")
            /\ UNCHANGED tenants
       ELSE \E t \in FindByApiKey(key) :
            /\ tenants' = [tenants EXCEPT ![t].subdomainPassword = password]
            /\ resp' = CallResp("password", NoTenant, "200")
    /\ UNCHANGED <<subdomainSessions, now, calls, issued, credentials, pages, uploads>>

\* POST /api/tenant/subdomain-password
SetSubdomainPassword(key, password) ==
    /\ IF FindByApiKey(key) = {}
       THEN /\ resp' = CallResp("password", NoTenant, "401")
            /\ UNCHANGED tenants
       ELSE \E t \in FindByApiKey(key) :
            IF ~Truthy(password) \/ Len(password) < 6
            THEN /\ resp' = CallResp("password", NoTenant, "400")
                 /\ UNCHANGED tenants
            ELSE /\ tenants' = [tenants EXCEPT ![t].subdomainPassword = password]
                 /\ resp' = CallResp("password", NoTenant, "200")
    /\ UNCHANGED <<subdomainSessions, now, calls, issued, credentials, pages, uploads>>


\* POST /api/tenant/verify-domain; isVerified is the answer of
\* verifyDomainPointing, which depends on the DNS
VerifyDomain(key, isVerified) ==
    /\ IF FindByApiKey(key) = {}
       THEN /\ resp' = CallResp("verify-domain", NoTenant, "401")
            /\ UNCHANGED tenants
       ELSE \E t \in FindByApiKey(key) :
            IF ~Truthy(tenants[t].customDomain)
            THEN /\ resp' = CallResp("verify-domain", NoTenant, "400")
                 /\ UNCHANGED tenants
            ELSE /\ tenants' = [tenants EXCEPT ![t].domainVerified = isVerified]
                 /\ resp' = CallResp("verify-domain", NoTenant, "200")
    /\ UNCHANGED <<subdomainSessions, now, calls, issued, credentials, pages, uploads>>

\* POST /api/tenant/branding, for the fields logoUrl and brandColor
SetBranding(key, logoUrl, brandColor) ==
    /\ IF FindByApiKey(key) = {}
       THEN /\ resp' = CallResp("branding", NoTenant, "401")
            /\ UNCHANGED tenants
       ELSE \E t \in FindByApiKey(key) :
            /\ tenants' = [tenants EXCEPT ![t].domainSettings =
                   [logoUrl |-> IF Truthy(logoUrl) THEN logoUrl
                                ELSE tenants[t].domainSettings.logoUrl,
                    brandColor |-> IF Truthy(brandColor) THEN brandColor
                                   ELSE IF Truthy(tenants[t].domainSettings.brandColor)
                                        THEN tenants[t].domainSettings.brandColor
                                        ELSE DefaultColor]]
            /\ resp' = CallResp("branding", NoTenant, "200")
    /\ UNCHANGED <<subdomainSessions, now, calls, issued, credentials, pages, uploads>>

\* a response that carries documents: res.json(...) of the lookup routes;
\* auth is req.tenant, the tenant verifyApiKey found, NoTenant for a route
\* without verifyApiKey
DocsResp(op, auth, status, docs) ==
    [op |-> op, proc |-> "api", tenant |-> NoTenant, status |-> status, auth |-> auth,
     docs |-> docs]

\* the object GET /api/tenant/info builds of tenant t
InfoDoc(t) ==
    [_id |-> t, name |-> tenants[t].name,
     customDomain |-> tenants[t].customDomain, subdomain |-> tenants[t].subdomain,
     domainVerified |-> tenants[t].domainVerified,
     domainSettings |-> tenants[t].domainSettings]

\* GET /api/tenant/info
TenantInfo(key) ==
    /\ resp' \in IF FindByApiKey(key) = {}
                 THEN {DocsResp("info", NoTenant, "401", {})}
                 ELSE {DocsResp("info", t, "200", {InfoDoc(t)}) : t \in FindByApiKey(key)}
    /\ UNCHANGED <<tenants, subdomainSessions, now, calls, issued, credentials, pages, uploads>>

\* the object POST /api/tenant/by-domain builds of tenant t
ByDomainDoc(t) ==
    [_id |-> t, name |-> tenants[t].name, apiKey |-> tenants[t].apiKey,
     customDomain |-> tenants[t].customDomain, subdomain |-> tenants[t].subdomain,
     subdomainPassword |-> tenants[t].subdomainPassword,
     domainVerified |-> tenants[t].domainVerified,
     domainSettings |-> tenants[t].domainSettings]

\* POST /api/tenant/by-domain sent to the API server; it has no verifyApiKey
ByDomainRequest(domain, type) ==
    /\ resp' \in IF ByDomain(domain, type, TRUE) = {NoTenant}
                 THEN {DocsResp("by-domain", NoTenant, "404", {})}
                 ELSE {DocsResp("by-domain", NoTenant, "200", {ByDomainDoc(t)}) :
                           t \in ByDomain(domain, type, TRUE)}
    /\ UNCHANGED <<tenants, subdomainSessions, now, calls, issued, credentials, pages, uploads>>

\* Tenant.find({}, 'name domain apiKey createdAt') of GET /api/debug/tenants
DebugDoc(t) == [_id |-> t, name |-> tenants[t].name, apiKey |-> tenants[t].apiKey]

\* GET /api/debug/tenants; it has no verifyApiKey
DebugTenants ==
    /\ resp' = DocsResp("debug-tenants", NoTenant, "200", {DebugDoc(t) : t \in TenantIds})
    /\ UNCHANGED <<tenants, subdomainSessions, now, calls, issued, credentials, pages, uploads>>

\* POST /api/clear-all-data; it has no verifyApiKey.  The files in
\* static/uploads and the Session Store are left as they are.
ClearAllData ==
    /\ tenants' = [t \in 1..Len(tenants) |-> Removed]
    /\ credentials' = [c \in 1..Len(credentials) |-> Removed]
    /\ pages' = [c \in 1..Len(pages) |-> Removed]
    /\ resp' = CallResp("clear-all-data", NoTenant, "200")
    /\ UNCHANGED <<subdomainSessions, now, calls, issued, uploads>>


(***************************************************************************)
(* Data routes.  Credential and Page documents are handled by the same     *)
(* code, so the handlers are given once, for a collection coll.            *)
(***************************************************************************)
\* new Credential({ tenantId: req.tenant._id, ...req.body }): a key of the
\* body replaces the key written before the spread
Spread(t, body) == body @@ [tenantId |-> t]

\* the update { ...req.body } applied to a document
Updated(doc, body) == body @@ doc

\* the _ids of the documents of coll that match { _id: id, tenantId: t }
Matching(coll, id, t) ==
    {i \in 1..Len(coll) : i = id /\ coll[i] # Removed /\ coll[i].tenantId = t}

\* a document as it is sent in a response
Sent(coll, i) == [_id |-> i] @@ coll[i]

\* POST /api/credentials and POST /api/pages: the collection and the
\* response they leave; save() fails when the required field is missing
CreateOutcomes(op, coll, field, t, body) ==
    IF field \notin DOMAIN body
    THEN {<<coll, DocsResp(op, t, "400", {})>>}
    ELSE IF Len(coll) < MaxRecords
         THEN LET created == Append(coll, Spread(t, body))
              IN  {<<created, DocsResp(op, t, "200", {Sent(created, Len(created))})>>}
         ELSE {}

\* GET /api/credentials and GET /api/pages
ListOutcomes(op, coll, t) ==
    {<<coll, DocsResp(op, t, "200",
                      {Sent(coll, i) : i \in {j \in 1..Len(coll) :
                                                 coll[j] # Removed /\ coll[j].tenantId = t}})>>}

\* PUT /api/credentials/:id and PUT /api/pages/:id; notFound is the status
\* sent when findOneAndUpdate returns null
UpdateOutcomes(op, coll, id, t, body, notFound) ==
    IF Matching(coll, id, t) = {}
    THEN {<<coll, DocsResp(op, t, notFound, {})>>}
    ELSE LET updated == [coll EXCEPT ![id] = Updated(coll[id], body)]
         IN  {<<updated, DocsResp(op, t, "200", {Sent(updated, id)})>>}

\* DELETE /api/credentials/:id and DELETE /api/pages/:id
DeleteOutcomes(op, coll, id, t) ==
    IF Matching(coll, id, t) = {}
    THEN {<<coll, DocsResp(op, t, "404", {})>>}
    ELSE {<<[coll EXCEPT ![id] = Removed], DocsResp(op, t, "200", {})>>}

\* verifyApiKey in front of a data route answers 401 without a tenant of
\* the key
Unauthenticated(op, coll) == {<<coll, DocsResp(op, NoTenant, "401", {})>>}

CreateCredential(key, body) ==
    /\ \E o \in IF FindByApiKey(key) = {}
               THEN Unauthenticated("credential-create", credentials)
               ELSE UNION {CreateOutcomes("credential-create", credentials, "serviceName", t, body) :
                              t \in FindByApiKey(key)} :
           credentials' = o[1] /\ resp' = o[2]
    /\ UNCHANGED <<tenants, subdomainSessions, now, calls, issued, pages, uploads>>

ListCredentials(key) ==
    /\ \E o \in IF FindByApiKey(key) = {}
               THEN Unauthenticated("credential-list", credentials)
               ELSE UNION {ListOutcomes("credential-list", credentials, t) :
                              t \in FindByApiKey(key)} :
           credentials' = o[1] /\ resp' = o[2]
    /\ UNCHANGED <<tenants, subdomainSessions, now, calls, issued, pages, uploads>>

UpdateCredential(key, id, body) ==
    /\ \E o \in IF FindByApiKey(key) = {}
               THEN Unauthenticated("credential-update", credentials)
               ELSE UNION {UpdateOutcomes("credential-update", credentials, id, t, body, "200") :
                              t \in FindByApiKey(key)} :
           credentials' = o[1] /\ resp' = o[2]
    /\ UNCHANGED <<tenants, subdomainSessions, now, calls, issued, pages, uploads>>

DeleteCredential(key, id) ==
    /\ \E o \in IF FindByApiKey(key) = {}
               THEN Unauthenticated("credential-delete", credentials)
               ELSE UNION {DeleteOutcomes("credential-delete", credentials, id, t) :
                              t \in FindByApiKey(key)} :
           credentials' = o[1] /\ resp' = o[2]
    /\ UNCHANGED <<tenants, subdomainSessions, now, calls, issued, pages, uploads>>

CreatePage(key, body) ==
    /\ \E o \in IF FindByApiKey(key) = {}
               THEN Unauthenticated("page-create", pages)
               ELSE UNION {CreateOutcomes("page-create", pages, "title", t, body) :
                              t \in FindByApiKey(key)} :
           pages' = o[1] /\ resp' = o[2]
    /\ UNCHANGED <<tenants, subdomainSessions, now, calls, issued, credentials, uploads>>

ListPages(key) ==
    /\ \E o \in IF FindByApiKey(key) = {}
               THEN Unauthenticated("page-list", pages)
               ELSE UNION {ListOutcomes("page-list", pages, t) :
                              t \in FindByApiKey(key)} :
           pages' = o[1] /\ resp' = o[2]
    /\ UNCHANGED <<tenants, subdomainSessions, now, calls, issued, credentials, uploads>>

UpdatePage(key, id, body) ==
    /\ \E o \in IF FindByApiKey(key) = {}
               THEN Unauthenticated("page-update", pages)
               ELSE UNION {UpdateOutcomes("page-update", pages, id, t, body, "404") :
                              t \in FindByApiKey(key)} :
           pages' = o[1] /\ resp' = o[2]
    /\ UNCHANGED <<tenants, subdomainSessions, now, calls, issued, credentials, uploads>>

DeletePage(key, id) ==
    /\ \E o \in IF FindByApiKey(key) = {}
               THEN Unauthenticated("page-delete", pages)
               ELSE UNION {DeleteOutcomes("page-delete", pages, id, t) :
                              t \in FindByApiKey(key)} :
           pages' = o[1] /\ resp' = o[2]
    /\ UNCHANGED <<tenants, subdomainSessions, now, calls, issued, credentials, uploads>>


(***************************************************************************)
(* Uploaded files.  The API server registers express.static for /uploads   *)
(* before identifyTenantByDomain and verifySubdomainAccess, and once more  *)
(* after them.                                                             *)
(***************************************************************************)
UploadsPrefix == <<"/", "u", "p", "l", "o", "a", "d", "s", "/">>

\* POST /api/upload: multer writes the file into static/uploads
UploadFile(key, file) ==
    /\ IF FindByApiKey(key) = {}
       THEN /\ resp' = CallResp("upload", NoTenant, "401")
            /\ UNCHANGED uploads
       ELSE /\ uploads' = uploads \cup {file}
            /\ resp' = CallResp("upload", NoTenant, "200")
    /\ UNCHANGED <<tenants, subdomainSessions, now, calls, issued, credentials, pages>>

\* the response to a request for a file, with the middleware that saw the
\* request, in the order in which it ran
FileResp(t, status, stages) ==
    [op |-> "uploads", proc |-> "api", tenant |-> t, status |-> status, stages |-> stages]

\* the responses the API server may give to GET /uploads/<file>
UploadsResponses(file, host, jar) ==
    IF file \in uploads
    THEN {FileResp(NoTenant, "200", <<"express.static">>)}
    ELSE {IF ApiGate(UploadsPrefix \o file, t, jar).kind = "CHALLENGE"
          THEN FileResp(t, "302", <<"express.static", "identifyTenantByDomain",
                                    "verifySubdomainAccess">>)
          ELSE FileResp(t, "404", <<"express.static", "identifyTenantByDomain",
                                    "verifySubdomainAccess", "express.static">>)
          : t \in ApiResolve(host)}

\* GET /uploads/<file> sent to the API server
UploadsRequest ==
    /\ resp' \in UNION {UploadsResponses(file, host, jar) :
                           file \in FileNames, host \in Hosts, jar \in Jars}
    /\ UNCHANGED <<tenants, subdomainSessions, now, calls, issued, credentials, pages, uploads>>


(***************************************************************************)
(* POST /api/tenant/domain as its requests interleave: the handler yields  *)
(* at each await, so another request may run between the uniqueness        *)
(* lookups and the save.  A caller has at most one such call in flight.    *)
(***************************************************************************)
RaceDomains == {Null, ddio}

RaceLabels == {Null, aa}

\* verifyApiKey and the format checks, up to the first uniqueness lookup
DomainStart(key, customDomain, subdomain) ==
    /\ FindByApiKey(key) # {}
    /\ \E t \in FindByApiKey(key) :
        /\ calls[t].pc = "idle"
        /\ IF ~DomainFormatOk(customDomain, subdomain)
           THEN /\ resp' = CallResp("domain", NoTenant, "400")
                /\ UNCHANGED calls
           ELSE /\ calls' = [calls EXCEPT ![t] =
                        [pc |-> "checkCustom", customDomain |-> customDomain,
                         subdomain |-> subdomain]]
                /\ resp' = NoResp
    /\ UNCHANGED <<tenants, subdomainSessions, now, issued, credentials, pages, uploads>>

\* if (customDomain) { existing = await Tenant.findOne(...) ... }
DomainCheckCustom(t) ==
    /\ calls[t].pc = "checkCustom"
    /\ IF Truthy(calls[t].customDomain) /\ CustomDomainTaken(t, calls[t].customDomain)
       THEN /\ calls' = [calls EXCEPT ![t] = NoCall]
            /\ resp' = CallResp("domain", NoTenant, "400")
       ELSE /\ calls' = [calls EXCEPT ![t].pc = "checkSub"]
            /\ resp' = NoResp
    /\ UNCHANGED <<tenants, subdomainSessions, now, issued, credentials, pages, uploads>>

\* if (subdomain) { existing = await Tenant.findOne(...) ... }
DomainCheckSub(t) ==
    /\ calls[t].pc = "checkSub"
    /\ IF Truthy(calls[t].subdomain) /\ SubdomainTaken(t, calls[t].subdomain)
       THEN /\ calls' = [calls EXCEPT ![t] = NoCall]
            /\ resp' = CallResp("domain", NoTenant, "400")
       ELSE /\ calls' = [calls EXCEPT ![t].pc = "save"]
            /\ resp' = NoResp
    /\ UNCHANGED <<tenants, subdomainSessions, now, issued, credentials, pages, uploads>>

\* the assignments and await tenant.save()
DomainSave(t) ==
    /\ calls[t].pc = "save"
    /\ tenants' = SaveDomain(t, calls[t].customDomain, calls[t].subdomain)
    /\ calls' = [calls EXCEPT ![t] = NoCall]
    /\ resp' = CallResp("domain", NoTenant, "200")
    /\ UNCHANGED <<subdomainSessions, now, issued, credentials, pages, uploads>>

(***************************************************************************)
(* Credential Issuer and Session Store.                                    *)
(***************************************************************************)
\* the session object with an expiry of 24 minutes
NewSession_ExpiresIn24Minutes(t) ==
    [tenantId |-> t, subdomain |-> tenants[t].subdomain, expires |-> now + 24 * 60 * 1000]

\* the session object built by the login route for tenant t
NewSession(t) ==
    [tenantId |-> t, subdomain |-> tenants[t].subdomain, expires |-> now + SessionTTL]

\* what no Set-Cookie header is rendered as
NoCookie == <<>>

\* the response of the login route: res.status(...).json(...), after
\* res.cookie(name, value) when cookie is not NoCookie
LoginResp(proc, t, status, body, cookie) ==
    [op |-> "login", proc |-> proc, tenant |-> t, status |-> status,
     body |-> body, cookie |-> cookie]

\* POST /api/subdomain/login, were it to compare the passwords without
\* first testing that the tenant has one
LoginOutcomes_NoUnsetTest(subdomain, password) ==
    IF FindBySubdomain(subdomain) = {}
    THEN {[sessions |-> subdomainSessions, minted |-> issued,
           reply |-> LoginResp("api", NoTenant, "404", "Subdomain not found", NoCookie)]}
    ELSE UNION {
           IF tenants[t].subdomainPassword # password
           THEN {[sessions |-> subdomainSessions, minted |-> issued,
                  reply |-> LoginResp("api", t, "401", "Invalid password", NoCookie)]}
           ELSE IF Cardinality(DOMAIN issued) < MaxTokens
                THEN LET sessionToken == Tok(Cardinality(DOMAIN issued) + 1)
                     IN  {[sessions |-> (sessionToken :> NewSession(t)) @@ subdomainSessions,
                           minted |-> (sessionToken :> now) @@ issued,
                           reply |-> LoginResp("api", t, "200", "success",
                                               <<CookieName(subdomain), sessionToken>>)]}
                ELSE {}
           : t \in FindBySubdomain(subdomain) }

\* POST /api/subdomain/login as a function of the state: the Session Store
\* and the response it may leave.  No outcome is given for a login that
\* would mint more than MaxTokens tokens.
LoginOutcomes(subdomain, password) ==
    IF FindBySubdomain(subdomain) = {}
    THEN {[sessions |-> subdomainSessions, minted |-> issued,
           reply |-> LoginResp("api", NoTenant, "404", "Subdomain not found", NoCookie)]}
    ELSE UNION {
           IF \/ ~Truthy(tenants[t].subdomainPassword)
              \/ tenants[t].subdomainPassword # password
           THEN {[sessions |-> subdomainSessions, minted |-> issued,
                  reply |-> LoginResp("api", t, "401", "Invalid password", NoCookie)]}
           ELSE IF Cardinality(DOMAIN issued) < MaxTokens
                THEN LET sessionToken == Tok(Cardinality(DOMAIN issued) + 1)
                     IN  {[sessions |-> (sessionToken :> NewSession(t)) @@ subdomainSessions,
                           minted |-> (sessionToken :> now) @@ issued,
                           reply |-> LoginResp("api", t, "200", "success",
                                               <<CookieName(subdomain), sessionToken>>)]}
                ELSE {}
           : t \in FindBySubdomain(subdomain) }

\* POST /api/subdomain/login sent to the API server
Login(subdomain, password) ==
    /\ \E o \in LoginOutcomes(subdomain, password) :
           /\ subdomainSessions' = o.sessions
           /\ issued' = o.minted
           /\ resp' = o.reply
    /\ UNCHANGED <<tenants, now, calls, credentials, pages, uploads>>

\* what apiCall returns for an answer of the API server and res.json(result)
\* sends on: the body of a 2xx answer, null for any other, always with
\* status 200 and without the headers of the answer
Proxied(reply) ==
    [reply EXCEPT !.proc = "frontend",
                  !.status = "200",
                  !.body = IF reply.status = "200" THEN reply.body ELSE "null",
                  !.cookie = NoCookie]

\* POST /api/subdomain/login sent to the frontend: app.post('/api/*')
\* forwards it to the API server with apiCall
ProxyLogin(subdomain, password) ==
    /\ \E o \in LoginOutcomes(subdomain, password) :
           /\ subdomainSessions' = o.sessions
           /\ issued' = o.minted
           /\ resp' = Proxied(o.reply)
    /\ UNCHANGED <<tenants, now, calls, credentials, pages, uploads>>

\* the API process stops and starts again, were the Session Store to be
\* kept across the restart
Restart_KeepsSessions ==
    /\ subdomainSessions # <<>>
    /\ subdomainSessions' = subdomainSessions
    /\ resp' = NoResp
    /\ UNCHANGED <<tenants, now, calls, issued, credentials, pages, uploads>>

\* the API process stops and starts again: subdomainSessions = new Map()
Restart ==
    /\ subdomainSessions # <<>>
    /\ subdomainSessions' = <<>>
    /\ resp' = NoResp
    /\ UNCHANGED <<tenants, now, calls, issued, credentials, pages, uploads>>

\* time passes
Tick ==
    /\ \E later \in Instants : later > now /\ now' = later
    /\ resp' = NoResp
    /\ UNCHANGED <<tenants, subdomainSessions, calls, issued, credentials, pages, uploads>>

\* the names of the tenants and the first unused name: names are
\* interchangeable, so a new tenant takes the first name that is free
NamesInUse == {TenantNames[k] : k \in 1..Min({Len(tenants) + 1, MaxTenants})}

(***************************************************************************)
(* Specifications.                                                         *)
(***************************************************************************)
Next ==
    \/ \E name \in NamesInUse : Register(name)
    \/ \E key \in {Key(k) : k \in 1..MaxTenants},
          customDomain \in Domains \cup {Null, BadDomain},
          subdomain \in Labels \cup {Null, BadLabel} :
              SetDomain(key, customDomain, subdomain)
    \/ \E key \in {Key(k) : k \in 1..MaxTenants}, password \in {pw1, pwShort, Null} :
              SetSubdomainPassword(key, password)
    \/ \E subdomain \in LoginLabels, password \in LoginPasswords :
              Login(subdomain, password)
    \/ \E subdomain \in LoginLabels, password \in LoginPasswords :
              ProxyLogin(subdomain, password)
    \/ ApiRequest
    \/ FrontendRequest
    \/ Restart
    \/ Tick

Spec == Init /\ [][Next]_vars

\* the tenant directory under interleaved domain calls
NextRace ==
    \/ \E name \in NamesInUse : Register(name)
    \/ \E key \in {Key(k) : k \in 1..MaxTenants},
          customDomain \in RaceDomains \cup {BadDomain},
          subdomain \in RaceLabels :
              DomainStart(key, customDomain, subdomain)
    \/ \E t \in 1..MaxTenants : DomainCheckCustom(t)
    \/ \E t \in 1..MaxTenants : DomainCheckSub(t)
    \/ \E t \in 1..MaxTenants : DomainSave(t)
    \/ ApiRequest
    \/ FrontendRequest

SpecRace == Init /\ [][NextRace]_vars

\* the routes of the API server that read and write the Tenant collection
NextDirectory ==
    \/ \E name \in NamesInUse : Register(name)
    \/ \E key \in {Key(k) : k \in 1..MaxTenants},
          customDomain \in RaceDomains,
          subdomain \in RaceLabels :
              SetDomain(key, customDomain, subdomain)
    \/ \E key \in {Key(k) : k \in 1..MaxTenants},
          password \in {pw1, pwShort, pwEmpty, Null} :
              SetSubdomainPassword(key, password)
    \/ \E key \in {Key(k) : k \in 1..MaxTenants}, isVerified \in BOOLEAN :
              VerifyDomain(key, isVerified)
    \/ \E key \in {Key(k) : k \in 1..MaxTenants}, brandColor \in BrandColors :
              SetBranding(key, Null, brandColor)
    \/ \E key \in {Key(k) : k \in 1..MaxTenants} : TenantInfo(key)
    \/ \E domain \in {ddio, aa}, type \in {"custom", "subdomain"} :
              ByDomainRequest(domain, type)
    \/ DebugTenants
    \/ ClearAllData

SpecDirectory == Init /\ [][NextDirectory]_vars

\* the routes of the API server that read and write Credential and Page
\* documents, for the tenants that register
NextData ==
    \/ \E name \in NamesInUse : Register(name)
    \/ \E key \in {Key(k) : k \in 1..MaxTenants}, body \in Bodies("serviceName") :
              CreateCredential(key, body)
    \/ \E key \in {Key(k) : k \in 1..MaxTenants} : ListCredentials(key)
    \/ \E key \in {Key(k) : k \in 1..MaxTenants}, id \in 1..MaxRecords,
          body \in Bodies("serviceName") :
              UpdateCredential(key, id, body)
    \/ \E key \in {Key(k) : k \in 1..MaxTenants}, id \in 1..MaxRecords :
              DeleteCredential(key, id)
    \/ \E key \in {Key(k) : k \in 1..MaxTenants}, body \in Bodies("title") :
              CreatePage(key, body)
    \/ \E key \in {Key(k) : k \in 1..MaxTenants} : ListPages(key)
    \/ \E key \in {Key(k) : k \in 1..MaxTenants}, id \in 1..MaxRecords,
          body \in Bodies("title") :
              UpdatePage(key, id, body)
    \/ \E key \in {Key(k) : k \in 1..MaxTenants}, id \in 1..MaxRecords :
              DeletePage(key, id)
    \/ \E key \in {Key(k) : k \in 1..MaxTenants}, file \in FileNames : UploadFile(key, file)
    \/ UploadsRequest

SpecData == Init /\ [][NextData]_vars

\* the routes that run on behalf of a registered tenant: domain,
\* verification, branding, password, login and data routes
NextKeys ==
    \/ \E name \in NamesInUse : Register(name)
    \/ \E key \in {Key(k) : k \in 1..MaxTenants},
          customDomain \in RaceDomains \cup {BadDomain},
          subdomain \in RaceLabels \cup {BadLabel} :
              SetDomain(key, customDomain, subdomain)
    \/ \E key \in {Key(k) : k \in 1..MaxTenants}, password \in LoginPasswords :
              SetSubdomainPassword(key, password)
    \/ \E key \in {Key(k) : k \in 1..MaxTenants}, isVerified \in BOOLEAN :
              VerifyDomain(key, isVerified)
    \/ \E key \in {Key(k) : k \in 1..MaxTenants}, brandColor \in BrandColors :
              SetBranding(key, Null, brandColor)
    \/ \E subdomain \in LoginLabels, password \in LoginPasswords :
              Login(subdomain, password)
    \/ \E key \in {Key(k) : k \in 1..MaxTenants}, body \in Bodies("serviceName") :
              CreateCredential(key, body)
    \/ \E key \in {Key(k) : k \in 1..MaxTenants}, id \in 1..MaxRecords,
          body \in Bodies("serviceName") :
              UpdateCredential(key, id, body)

SpecKeys == Init /\ [][NextKeys]_vars

\* the life of a session in the API server: tenants take and release the
\* label, set and change the password (pw1, then pw2); visitors log in with
\* pw1 or with no password, and send requests; time passes and the process
\* restarts
NextSessions ==
    \/ \E name \in NamesInUse : Register(name)
    \/ \E key \in {Key(k) : k \in 1..MaxTenants}, subdomain \in RaceLabels :
              SetDomain(key, Null, subdomain)
    \/ \E key \in {Key(k) : k \in 1..MaxTenants}, password \in {pw1, pw2, pwEmpty} :
              SetSubdomainPassword(key, password)
    \/ \E subdomain \in LoginLabels, password \in {pw1, pwEmpty, Null} :
              Login(subdomain, password)
    \/ ApiRequest
    \/ Restart
    \/ Tick

SpecSessions == Init /\ [][NextSessions]_vars


(***************************************************************************)
(* Notions the claims use.                                                 *)
(***************************************************************************)
\* the paths the specification exempts from the gate: the API prefix, the
\* static-asset prefixes and the login page
ExemptBySpec(path) ==
    \/ \E p \in ExemptPrefixes : StartsWith(path, p)
    \/ path = LoginPath

ContentPaths == {path \in ReqPaths : ~ExemptBySpec(path)}

PrefixExemptPaths == {path \in ReqPaths : \E p \in ExemptPrefixes : StartsWith(path, p)}

\* the tenants a gate may see as the resolved tenant of some request
ApiResolved == UNION {ApiResolve(host) : host \in Hosts} \ {NoTenant}

FrontendResolved == UNION {FrontendResolve(host, TRUE) : host \in Hosts} \ {NoTenant}

HasPassword(t) == Truthy(tenants[t].subdomainPassword)

\* the jars that present value v under some cookie name
JarsWith(v) == {jar \in Jars : \E n \in DOMAIN jar : jar[n] = v}

\* the jars without a cookie named subdomain_auth_<label of t>
JarsWithout(t) == {jar \in Jars : CookieName(tenants[t].subdomain) \notin DOMAIN jar}

\* value v is no valid session for tenant t: unknown, expired or bound to another tenant
NoValidSession(v, t) ==
    \/ v \notin DOMAIN subdomainSessions
    \/ subdomainSessions[v].expires <= now
    \/ subdomainSessions[v].tenantId # t

Challenge(t) == Decision("CHALLENGE", LoginRedirect(tenants[t].subdomain))

(***************************************************************************)
(* C1.  A session minted for tenant A never causes a gate to ALLOW a       *)
(* non-exempt request that resolves to a tenant B # A, under whatever      *)
(* cookie name the token is presented: a request carrying the token is     *)
(* ALLOWed for B only if the same request without cookies is.  This holds  *)
(* in the API server's gate and in the frontend's gate.                    *)
(***************************************************************************)
C1_SessionAuthorizesOneTenant ==
    \A tok \in DOMAIN subdomainSessions :
        \A path \in ContentPaths, jar \in JarsWith(tok) :
            /\ \A b \in ApiResolved \ {subdomainSessions[tok].tenantId} :
                   ApiGate(path, b, jar).kind = "ALLOW"
                   => ApiGate(path, b, <<>>).kind = "ALLOW"
            /\ \A b \in FrontendResolved \ {subdomainSessions[tok].tenantId} :
                   FrontendGate(path, b, jar).kind = "ALLOW"
                   => FrontendGate(path, b, <<>>).kind = "ALLOW"

\* the API server's half of C1
C1_ApiHalf ==
    \A tok \in DOMAIN subdomainSessions :
        \A path \in ContentPaths, jar \in JarsWith(tok) :
            \A b \in ApiResolved \ {subdomainSessions[tok].tenantId} :
                ApiGate(path, b, jar).kind # "ALLOW"

(***************************************************************************)
(* C2.  For a tenant with a subdomain label and a subdomain password, a    *)
(* non-exempt request whose cookie subdomain_auth_<label> holds a token    *)
(* that is unknown to the Session Store, expired or bound to another       *)
(* tenant is answered CHALLENGE, the redirect of a request without cookie, *)
(* in the API server's gate and in the frontend's gate.                    *)
(***************************************************************************)
HasLabel(t) == Truthy(tenants[t].subdomain)

\* the jars whose cookie subdomain_auth_<label of t> holds no valid session for t
JarsInvalidFor(t) ==
    {jar \in Jars : /\ CookieName(tenants[t].subdomain) \in DOMAIN jar
                    /\ NoValidSession(jar[CookieName(tenants[t].subdomain)], t)}

C2_InvalidTokenChallenged ==
    \A path \in ContentPaths :
        /\ \A t \in ApiResolved :
               HasLabel(t) /\ HasPassword(t) =>
                   \A jar \in JarsInvalidFor(t) : ApiGate(path, t, jar) = Challenge(t)
        /\ \A t \in FrontendResolved :
               HasLabel(t) /\ HasPassword(t) =>
                   \A jar \in JarsInvalidFor(t) : FrontendGate(path, t, jar) = Challenge(t)

\* the API server's half of C2
C2_ApiHalf ==
    \A path \in ContentPaths :
        \A t \in ApiResolved :
            HasLabel(t) /\ HasPassword(t) =>
                \A jar \in JarsInvalidFor(t) : ApiGate(path, t, jar) = Challenge(t)

(***************************************************************************)
(* C3.  A non-exempt request that resolves to a tenant with a subdomain    *)
(* password, with or without a subdomain label, and presents no cookie     *)
(* named subdomain_auth_<label> is answered CHALLENGE with the redirect    *)
(* /subdomain-login?subdomain=<label>, in both gates.                      *)
(***************************************************************************)
C3_NoCookieChallenged ==
    \A path \in ContentPaths :
        /\ \A t \in ApiResolved :
               HasPassword(t) =>
                   \A jar \in JarsWithout(t) : ApiGate(path, t, jar) = Challenge(t)
        /\ \A t \in FrontendResolved :
               HasPassword(t) =>
                   \A jar \in JarsWithout(t) : FrontendGate(path, t, jar) = Challenge(t)

\* the API server's half of C3
C3_ApiHalf ==
    \A path \in ContentPaths :
        \A t \in ApiResolved :
            HasPassword(t) =>
                \A jar \in JarsWithout(t) : ApiGate(path, t, jar) = Challenge(t)

(***************************************************************************)
(* C4.  A non-exempt request that resolves to a tenant whose               *)
(* subdomainPassword is unset is ALLOWed by both gates, whatever cookies   *)
(* it presents and whatever the Session Store holds.                       *)
(***************************************************************************)
C4_NoPasswordAllowed ==
    \A path \in ContentPaths, jar \in Jars :
        /\ \A t \in ApiResolved :
               ~HasPassword(t) => ApiGate(path, t, jar).kind = "ALLOW"
        /\ \A t \in FrontendResolved :
               ~HasPassword(t) => FrontendGate(path, t, jar).kind = "ALLOW"

\* the frontend's half of C4
C4_FrontendHalf ==
    \A path \in ContentPaths, jar \in Jars :
        \A t \in FrontendResolved :
            ~HasPassword(t) => FrontendGate(path, t, jar).kind = "ALLOW"


(***************************************************************************)
(* C5 as stated.  After a login at instant t has minted token X for a      *)
(* tenant under label L, every non-exempt request that resolves to that    *)
(* tenant and carries subdomain_auth_L = X is ALLOWed by the API server's  *)
(* gate before t + 24h and CHALLENGEd from t + 24h on, while X is in the   *)
(* Session Store (no restart).                                             *)
(***************************************************************************)
\* the jars that carry the cookie subdomain_auth_<label> = tok
JarsCarrying(label, tok) ==
    {jar \in Jars : CookieName(label) \in DOMAIN jar /\ jar[CookieName(label)] = tok}

\* what C5 tells of a request at the present instant for a token minted at t
C5Expected(t) == IF now < t + DayMs THEN "ALLOW" ELSE "CHALLENGE"

C5_AllowedFor24h ==
    \A tok \in DOMAIN subdomainSessions :
        subdomainSessions[tok].tenantId \in ApiResolved =>
            \A path \in ContentPaths,
               jar \in JarsCarrying(subdomainSessions[tok].subdomain, tok) :
                ApiGate(path, subdomainSessions[tok].tenantId, jar).kind
                    = C5Expected(issued[tok])

(***************************************************************************)
(* C5 as amended.  The same, for the requests made while the tenant still  *)
(* holds the label L under which the token was minted.                     *)
(***************************************************************************)
C5_AllowedFor24hWhileLabelKept ==
    \A tok \in DOMAIN subdomainSessions :
        /\ subdomainSessions[tok].tenantId \in ApiResolved
        /\ tenants[subdomainSessions[tok].tenantId].subdomain
               = subdomainSessions[tok].subdomain
        => \A path \in ContentPaths,
              jar \in JarsCarrying(subdomainSessions[tok].subdomain, tok) :
               ApiGate(path, subdomainSessions[tok].tenantId, jar).kind
                   = C5Expected(issued[tok])

\* the API server's gate has ALLOWed a request of a tenant one millisecond
\* before the 24 hours of its session are over
C5_Witness ==
    /\ resp.op = "gate" /\ resp.proc = "api" /\ resp.status = "ALLOW"
    /\ resp.tenant # NoTenant
    /\ \E tok \in DOMAIN subdomainSessions :
           /\ subdomainSessions[tok].tenantId = resp.tenant
           /\ tenants[resp.tenant].subdomain = subdomainSessions[tok].subdomain
           /\ now = issued[tok] + DayMs - 1

(***************************************************************************)
(* C6.  No two tenants hold the same non-null customDomain and no two      *)
(* tenants hold the same non-null subdomain, also when POST                *)
(* /api/tenant/domain calls of different tenants interleave.               *)
(***************************************************************************)
C6_DomainsUnique ==
    \A t, u \in TenantIds :
        t # u =>
            /\ Truthy(tenants[t].customDomain) =>
                   tenants[t].customDomain # tenants[u].customDomain
            /\ Truthy(tenants[t].subdomain) =>
                   tenants[t].subdomain # tenants[u].subdomain

(***************************************************************************)
(* C7.  The login page is exempt in every gate: a request for              *)
(* /subdomain-login that resolves to a password-protected tenant and       *)
(* carries no valid session is not answered with a CHALLENGE redirect.     *)
(***************************************************************************)
C7_LoginPageExempt ==
    \A jar \in Jars :
        /\ \A t \in ApiResolved :
               HasPassword(t) => ApiGate(LoginPath, t, jar).kind # "CHALLENGE"
        /\ \A t \in FrontendResolved :
               HasPassword(t) => FrontendGate(LoginPath, t, jar).kind # "CHALLENGE"

\* the frontend's half of C7
C7_FrontendHalf ==
    \A jar \in Jars :
        \A t \in FrontendResolved :
            FrontendGate(LoginPath, t, jar).kind # "CHALLENGE"

(***************************************************************************)
(* C8.  A request whose path starts with /api/, /css/, /js/ or /images/    *)
(* passes both gates as EXEMPT, whatever tenant its host resolves to,      *)
(* whatever the Session Store holds and whatever cookies it carries; so    *)
(* the outcome is the same each time the request is repeated.              *)
(***************************************************************************)
C8_ExemptPathsPass ==
    \A host \in Hosts :
        LET resolved == ApiResolve(host)
        IN  \A path \in PrefixExemptPaths :
                LET bound == UNION {FrontendBind(path, host, apiUp) : apiUp \in BOOLEAN}
                IN  \A jar \in Jars :
                        /\ \A t \in resolved : ApiGate(path, t, jar).kind = "EXEMPT"
                        /\ \A t \in bound : FrontendGate(path, t, jar).kind = "EXEMPT"

\* the API server's gate has passed as EXEMPT a request that resolves to a
\* password-protected tenant, the Session Store holding no session
C8_Witness ==
    /\ resp.op = "gate" /\ resp.proc = "api" /\ resp.status = "EXEMPT"
    /\ resp.tenant # NoTenant
    /\ HasPassword(resp.tenant)
    /\ subdomainSessions = <<>>

(***************************************************************************)
(* C9.  A host equal to the customDomain of a tenant is resolved to that   *)
(* tenant and to no other, by the API server and by the frontend (its      *)
(* lookups answered).                                                      *)
(***************************************************************************)
C9_CustomDomainResolves ==
    \A t \in TenantIds :
        Truthy(tenants[t].customDomain) =>
            /\ ApiResolve(tenants[t].customDomain) = {t}
            /\ FrontendResolve(tenants[t].customDomain, TRUE) = {t}

(***************************************************************************)
(* C10.  A host <label>.docforge.com is resolved to the tenant whose       *)
(* subdomain is <label>, and to no tenant when no tenant has that          *)
(* subdomain; by the API server and by the frontend (its lookups           *)
(* answered).                                                              *)
(***************************************************************************)
C10_SubdomainResolves ==
    \A label \in Labels :
        /\ \A t \in TenantIds :
               tenants[t].subdomain = label =>
                   /\ t \in ApiResolve(label \o ParentDomain)
                   /\ t \in FrontendResolve(label \o ParentDomain, TRUE)
        /\ (\A t \in TenantIds : tenants[t].subdomain # label) =>
               /\ ApiResolve(label \o ParentDomain) = {NoTenant}
               /\ FrontendResolve(label \o ParentDomain, TRUE) = {NoTenant}

(***************************************************************************)
(* C11.  The subdomain lookup is attempted only for hosts that end with    *)
(* .docforge.com: a host that is no tenant's custom domain and does not    *)
(* end with .docforge.com resolves to no tenant, in the API server and in  *)
(* the frontend.                                                           *)
(***************************************************************************)
EndsWith(s, p) == Len(s) >= Len(p) /\ SubSeq(s, Len(s) - Len(p) + 1, Len(s)) = p

C11_LookupOnlyForSuffix ==
    \A host \in Hosts :
        FindByCustomDomain(host) = {} /\ ~EndsWith(host, ParentDomain) =>
            /\ ApiResolve(host) = {NoTenant}
            /\ \A apiUp \in BOOLEAN : FrontendResolve(host, apiUp) = {NoTenant}

(***************************************************************************)
(* C12.  A login with the label of an existing tenant and that tenant's    *)
(* stored, non-empty password adds exactly one entry to the Session Store, *)
(* under a token the store did not hold, bound to the tenant's id and      *)
(* label, with expires = now + 24 hours, and sets the cookie               *)
(* subdomain_auth_<label> to that token.  (A login beyond the MaxTokens    *)
(* tokens of the model has no outcome.)                                    *)
(***************************************************************************)
\* the tenants a login with this label and password has to succeed for
GoodLogin(label, password) ==
    {t \in TenantIds : /\ tenants[t].subdomain = label
                       /\ Truthy(tenants[t].subdomainPassword)
                       /\ tenants[t].subdomainPassword = password}

C12_LoginMintsOneSession ==
    \A label \in LoginLabels, password \in LoginPasswords :
        GoodLogin(label, password) # {} =>
            /\ Cardinality(DOMAIN issued) < MaxTokens =>
                   LoginOutcomes(label, password) # {}
            /\ \A o \in LoginOutcomes(label, password) :
                   /\ o.reply.status = "200"
                   /\ o.reply.tenant \in GoodLogin(label, password)
                   /\ Len(o.reply.cookie) = 2
                   /\ o.reply.cookie[1] = CookiePrefix \o label
                   /\ LET token == o.reply.cookie[2]
                      IN  /\ token \notin DOMAIN subdomainSessions
                          /\ DOMAIN o.sessions = DOMAIN subdomainSessions \cup {token}
                          /\ \A old \in DOMAIN subdomainSessions :
                                 o.sessions[old] = subdomainSessions[old]
                          /\ o.sessions[token] =
                                 [tenantId |-> o.reply.tenant, subdomain |-> label,
                                  expires |-> now + DayMs]

\* the API server has answered a login with 200, its cookie names a token of
\* the Session Store, and the store holds nothing else
C12_Witness ==
    /\ resp.op = "login" /\ resp.proc = "api" /\ resp.status = "200"
    /\ resp.cookie # NoCookie
    /\ DOMAIN subdomainSessions = {resp.cookie[2]}
    /\ subdomainSessions[resp.cookie[2]].tenantId = resp.tenant

(***************************************************************************)
(* C13.  A login that fails (no tenant of the label, a tenant without a    *)
(* password, or another password) is answered with an error status, sets   *)
(* no cookie and leaves the Session Store as it was, whether it is sent to *)
(* the API server or through the frontend's POST /api/* proxy.             *)
(***************************************************************************)
\* a reply that tells the caller the login was refused
IsAuthError(reply) == reply.status \in {"401", "403", "404"}

C13_ApiHalf ==
    \A label \in LoginLabels, password \in LoginPasswords :
        GoodLogin(label, password) = {} =>
            \A o \in LoginOutcomes(label, password) :
                /\ o.sessions = subdomainSessions
                /\ o.reply.cookie = NoCookie
                /\ IsAuthError(o.reply)

C13_FailedLoginRejected ==
    \A label \in LoginLabels, password \in LoginPasswords :
        GoodLogin(label, password) = {} =>
            \A o \in LoginOutcomes(label, password) :
                /\ o.sessions = subdomainSessions
                /\ o.reply.cookie = NoCookie
                /\ IsAuthError(o.reply)
                /\ Proxied(o.reply).cookie = NoCookie
                /\ IsAuthError(Proxied(o.reply))

(***************************************************************************)
(* C14.  A failed login for a label no tenant holds and a failed login     *)
(* with a wrong password for a label a tenant holds are answered with the  *)
(* same status code and the same error message.                            *)
(***************************************************************************)
C14_FailureHidesExistence ==
    \A unknown \in LoginLabels, known \in LoginLabels :
        FindBySubdomain(unknown) = {} /\ FindBySubdomain(known) # {} =>
            \A p1 \in LoginPasswords, p2 \in LoginPasswords :
                GoodLogin(known, p2) = {} =>
                    \A o1 \in LoginOutcomes(unknown, p1), o2 \in LoginOutcomes(known, p2) :
                        /\ o1.reply.status = o2.reply.status
                        /\ o1.reply.body = o2.reply.body

(***************************************************************************)
(* C15.  No response to a request that carries neither tenant T's API key  *)
(* nor a session of T holds T's apiKey or T's subdomainPassword.  The      *)
(* routes that answer with tenant documents take no session; resp.auth is  *)
(* the tenant whose API key the request carried.                           *)
(***************************************************************************)
\* document doc of a response holds the API key or the password of its tenant
HoldsSecret(doc) ==
    \/ "apiKey" \in DOMAIN doc
    \/ "subdomainPassword" \in DOMAIN doc /\ Truthy(doc.subdomainPassword)

C15_NoSecretsWithoutCredentials ==
    "docs" \in DOMAIN resp =>
        \A doc \in resp.docs : doc._id # resp.auth => ~HoldsSecret(doc)

(***************************************************************************)
(* C16.  Every Credential and Page document that a request authenticated   *)
(* with tenant T's API key creates, returns, updates or deletes has        *)
(* tenantId = T before and after the request, for every request body.      *)
(***************************************************************************)
DataOps ==
    {"credential-create", "credential-list", "credential-update", "credential-delete",
     "page-create", "page-list", "page-update", "page-delete"}

\* the documents that differ between coll and after all belong to tenant t,
\* before and after
TouchesOnly(coll, after, t) ==
    \A i \in 1..Len(after) :
        (i > Len(coll) \/ after[i] # coll[i]) =>
            /\ (i <= Len(coll) /\ coll[i] # Removed) => coll[i].tenantId = t
            /\ after[i] # Removed => after[i].tenantId = t

C16_TenantIsolation ==
    [][ (resp'.op \in DataOps /\ resp'.auth # NoTenant) =>
            /\ TouchesOnly(credentials, credentials', resp'.auth)
            /\ TouchesOnly(pages, pages', resp'.auth)
            /\ \A doc \in resp'.docs : doc.tenantId = resp'.auth ]_vars

(***************************************************************************)
(* C17.  Before a content handler of either process answers a request,     *)
(* the Domain Resolver and then the Access Gate have evaluated it, unless  *)
(* its path lies under /api/, /css/, /js/ or /images/ or is the login      *)
(* page.                                                                   *)
(***************************************************************************)
\* stage a comes before stage b in stages
Before(stages, a, b) ==
    \E i \in 1..Len(stages), j \in 1..Len(stages) :
        i < j /\ stages[i] = a /\ stages[j] = b

C17_ResolverAndGateFirst ==
    (resp.op = "uploads" /\ resp.status = "200") =>
        \/ \A file \in FileNames : ExemptBySpec(UploadsPrefix \o file)
        \/ Before(resp.stages, "identifyTenantByDomain", "verifySubdomainAccess")

(***************************************************************************)
(* C18.  The customDomain, subdomain and subdomainPassword of a tenant     *)
(* change, or go away with the tenant, only in a step that is a            *)
(* POST /api/tenant/domain or a POST /api/tenant/subdomain-password        *)
(* carrying that tenant's own API key.                                     *)
(***************************************************************************)
\* the domain configuration of tenant t
Config(t) ==
    <<tenants[t].customDomain, tenants[t].subdomain, tenants[t].subdomainPassword>>

\* the step is a configuration call with the API key of tenant t
OwnConfigCall(t) ==
    \/ \E customDomain \in Domains \cup {Null, BadDomain},
          subdomain \in Labels \cup {Null, BadLabel} :
              SetDomain(tenants[t].apiKey, customDomain, subdomain)
    \/ \E password \in LoginPasswords \cup {Null} :
              SetSubdomainPassword(tenants[t].apiKey, password)

C18_OnlyOwnerConfigures ==
    [][ \A t \in TenantIds :
            (t \notin TenantIds' \/ Config(t)' # Config(t)) => OwnConfigCall(t) ]_vars

(***************************************************************************)
(* C19.  The apiKey of a tenant never changes after registration: no       *)
(* domain, verification, branding, password, login or data call changes    *)
(* the apiKey of a tenant that exists.                                     *)
(***************************************************************************)
C19_ApiKeyImmutable ==
    [][ \A t \in TenantIds : t \in TenantIds' => tenants'[t].apiKey = tenants[t].apiKey ]_vars

\* a tenant has gone through the domain, verification, branding and
\* password calls, a login has succeeded and a credential is stored
C19_Witness ==
    /\ \E t \in TenantIds :
           /\ Truthy(tenants[t].customDomain)
           /\ Truthy(tenants[t].subdomain)
           /\ tenants[t].domainVerified
           /\ Truthy(tenants[t].subdomainPassword)
           /\ tenants[t].domainSettings.brandColor # DefaultColor
           /\ \E token \in DOMAIN subdomainSessions : subdomainSessions[token].tenantId = t
    /\ Len(credentials) > 0

(***************************************************************************)
(* C20.  An entry enters the Session Store only in a successful login,     *)
(* and no step other than a restart of the API process changes or removes  *)
(* an entry: not a gate check, a later login, a password change or a       *)
(* domain change, nor the passing of its expiry.                           *)
(***************************************************************************)
\* the step is a login, sent to the API server or through the frontend,
\* with the label and the password of a tenant
GoodLoginStep ==
    \E label \in LoginLabels, password \in LoginPasswords :
        /\ GoodLogin(label, password) # {}
        /\ Login(label, password) \/ ProxyLogin(label, password)

C21_StoreInvisibleToFrontend ==
    [][subdomainSessions' # subdomainSessions =>
         \A path \in ReqPaths :
             /\ \A host \in Hosts, apiUp \in BOOLEAN :
                    FrontendBind(path, host, apiUp)' = FrontendBind(path, host, apiUp)
             /\ \A t \in TenantIds \cup {NoTenant}, jar \in Jars :
                    FrontendGate(path, t, jar)' = FrontendGate(path, t, jar)]_vars

\* the store holds a live session of a tenant and the frontend has just
\* CHALLENGEd a request bound to that tenant
C21_Witness ==
    /\ resp.op = "gate" /\ resp.proc = "frontend" /\ resp.status = "CHALLENGE"
    /\ \E token \in DOMAIN subdomainSessions :
           /\ subdomainSessions[token].tenantId = resp.tenant
           /\ subdomainSessions[token].expires > now

(***************************************************************************)
(* C22: the two processes agree on tenant identity.  For every host, with  *)
(* the directory reachable, the tenant the frontend's resolver binds on a  *)
(* non-exempt path is the tenant the API server's resolver binds (or both  *)
(* bind none): the same queries against the same collection, so the        *)
(* documents the one may get are the documents the other may get.          *)
(***************************************************************************)
C22_ResolversAgree ==
    \A host \in Hosts, path \in ContentPaths :
        FrontendBind(path, host, TRUE) = ApiResolve(host)

\* a host that carries the parent domain in the middle is resolved to a
\* tenant by the API server, and the frontend has just bound a request to
\* that tenant
C22_Witness ==
    /\ ApiResolve(LookalikeHost) # {NoTenant}
    /\ resp.op = "gate" /\ resp.proc = "frontend"
    /\ resp.tenant \in ApiResolve(LookalikeHost)

(***************************************************************************)
(* C23: the resolver never raises.  When a lookup that the resolver makes  *)
(* fails (Tenant.findOne throws in the API server, apiCall gets no 2xx     *)
(* answer in the frontend), no tenant is bound to the request and it goes  *)
(* on without a CHALLENGE.                                                 *)
(***************************************************************************)
\* a lookup that the resolver makes for host fails: the first one, or the
\* second one when the first finds nothing and the host has the parent domain
LookupFails(host, customUp, subdomainUp) ==
    \/ ~customUp
    \/ /\ ~subdomainUp
       /\ Includes(host, ParentDomain)
       /\ FindByCustomDomain(host) = {}

\* a request with no tenant bound is never CHALLENGEd
UnboundPasses ==
    \A path \in ReqPaths, jar \in Jars :
        /\ ApiGate(path, NoTenant, jar).kind # "CHALLENGE"
        /\ FrontendGate(path, NoTenant, jar).kind # "CHALLENGE"

C23_FailedLookupBindsNone ==
    /\ UnboundPasses
    /\ \A host \in Hosts, customUp \in BOOLEAN, subdomainUp \in BOOLEAN :
           LookupFails(host, customUp, subdomainUp) =>
               /\ ApiResolveOrThrow(host, customUp, subdomainUp) = {NoTenant}
               /\ FrontendResolveEach(host, customUp, subdomainUp) = {NoTenant}

\* C23 as the code has it: in the API server a lookup that throws ends the
\* resolution with no tenant bound; in the frontend a lookup that fails
\* counts as that lookup finding nothing, so a failed custom-domain lookup
\* is followed by the subdomain lookup, which may bind a tenant; with every
\* lookup failing no tenant is bound; a request with no tenant bound is
\* never CHALLENGEd
C23_FailedLookupFindsNone ==
    /\ UnboundPasses
    /\ \A host \in Hosts, customUp \in BOOLEAN, subdomainUp \in BOOLEAN :
           /\ LookupFails(host, customUp, subdomainUp) =>
                  ApiResolveOrThrow(host, customUp, subdomainUp) = {NoTenant}
           /\ FrontendResolveEach(host, customUp, subdomainUp) =
                  IF customUp /\ FindByCustomDomain(host) # {}
                  THEN FindByCustomDomain(host)
                  ELSE IF /\ subdomainUp
                          /\ Includes(host, ParentDomain)
                          /\ FindBySubdomain(SplitFirst(host)) # {}
                       THEN FindBySubdomain(SplitFirst(host))
                       ELSE {NoTenant}
           /\ FrontendResolveEach(host, FALSE, FALSE) = {NoTenant}

\* every host of the model resolves to a tenant when the lookups answer,
\* and the API server has just let a request through with no tenant bound
C23_Witness ==
    /\ \A host \in Hosts : NoTenant \notin ApiResolve(host)
    /\ resp.op = "gate" /\ resp.proc = "api"
    /\ resp.tenant = NoTenant /\ resp.status = "ALLOW"

(***************************************************************************)
(* C24: a visitor of a password-protected subdomain who submits the        *)
(* correct password to the frontend (POST /api/subdomain/login through     *)
(* app.post('/api/*')) holds the cookie subdomain_auth_<label> with the    *)
(* minted token afterwards, and the next non-exempt request to that host   *)
(* is ALLOWed by the frontend.                                             *)
(***************************************************************************)
\* the cookies a visitor without cookies holds after an answer
JarAfter(cookie) ==
    IF cookie = NoCookie THEN <<>> ELSE [n \in {cookie[1]} |-> cookie[2]]

C24_ProxyLoginGrantsAccess ==
    [][\A label \in Labels, password \in LoginPasswords :
           (GoodLogin(label, password) # {} /\ ProxyLogin(label, password)) =>
               /\ Len(resp'.cookie) = 2
               /\ resp'.cookie[1] = CookieName(label)
               /\ resp'.cookie[2] \in DOMAIN subdomainSessions' \ DOMAIN subdomainSessions
               /\ \A t \in GoodLogin(label, password), jar \in {JarAfter(resp'.cookie)},
                     path \in ContentPaths :
                       FrontendGate(path, t, jar)'.kind = "ALLOW"]_vars

(***************************************************************************)
(* C25: the gate decides each request anew from the current directory      *)
(* record, Session Store, cookies and clock.  Once a tenant sets a         *)
(* subdomain password, the very next non-exempt request to its host that   *)
(* carries no valid session is CHALLENGEd by the frontend, whatever was    *)
(* decided for the visitor before.                                         *)
(***************************************************************************)
C25_PasswordGatesNextRequest ==
    [][\A t \in TenantIds :
           (t \in TenantIds' /\ ~HasPassword(t) /\ HasPassword(t)') =>
               \A path \in ContentPaths, jar \in Jars :
                   (/\ t \in FrontendResolved
                    /\ NoValidSession(JarGet(jar, CookieName(tenants[t].subdomain)), t))' =>
                       FrontendGate(path, t, jar)'.kind = "CHALLENGE"]_vars

(***************************************************************************)
(* C26: changing a tenant's subdomain password does not revoke sessions.   *)
(* A token of the Session Store that is bound to the tenant is ALLOWed by  *)
(* the API server's gate at every time before its expiry, whatever the     *)
(* tenant's password is by then (first conjunct), and the step that        *)
(* changes the password leaves every such token ALLOWed while a login with *)
(* the old password fails from then on (second conjunct).                  *)
(***************************************************************************)
\* the live tokens of tenant t, minted under the label it holds
LiveTokens(t) ==
    {token \in DOMAIN subdomainSessions :
        /\ subdomainSessions[token].tenantId = t
        /\ subdomainSessions[token].subdomain = tenants[t].subdomain
        /\ subdomainSessions[token].expires > now}

JarsPresenting(t, v) ==
    {jar \in Jars : JarGet(jar, CookieName(tenants[t].subdomain)) = v}

C27_RestartDropsSessions ==
    /\ [][Restart =>
             /\ subdomainSessions' = <<>>
             /\ \A token \in DOMAIN subdomainSessions, t \in ApiResolved,
                   path \in ContentPaths :
                     \A jar \in JarsPresenting(t, token) :
                         ApiGate(path, t, jar)'.kind = "CHALLENGE"]_vars
    /\ [](\A token \in DOMAIN issued \ DOMAIN subdomainSessions, t \in ApiResolved,
             path \in ContentPaths :
               \A jar \in JarsPresenting(t, token) :
                   ApiGate(path, t, jar).kind = "CHALLENGE")

\* the store is empty although a token was minted less than 24 hours ago,
\* and the API server's gate has just CHALLENGEd a request of a tenant that
\* has a label and a password
C27_Witness ==
    /\ subdomainSessions = <<>>
    /\ \E token \in DOMAIN issued : now < issued[token] + DayMs
    /\ resp.op = "gate" /\ resp.proc = "api" /\ resp.status = "CHALLENGE"
    /\ resp.tenant \in TenantIds
    /\ HasLabel(resp.tenant) /\ HasPassword(resp.tenant)

(***************************************************************************)
(* C28: no session is ever minted for a tenant without a subdomain         *)
(* password.  A login answered 200 is one for a tenant that has a password *)
(* equal to the supplied one; for a tenant whose password is unset every   *)
(* supplied password, the empty and the missing one included, leaves the   *)
(* Session Store as it was (first conjunct).  Every entry that appears in  *)
(* the store is bound to a tenant that has a password at that moment       *)
(* (second conjunct).                                                      *)
(***************************************************************************)
C28_NoSessionWithoutPassword ==
    /\ [](\A label \in LoginLabels \cup {Null},
             password \in {pw1, pw2, pwShort, pwEmpty, Null} :
               \A o \in LoginOutcomes(label, password) :
                   IF o.reply.status = "200"
                   THEN /\ o.reply.tenant \in TenantIds
                        /\ HasPassword(o.reply.tenant)
                        /\ tenants[o.reply.tenant].subdomainPassword = password
                   ELSE o.sessions = subdomainSessions)
    /\ [][\A token \in DOMAIN subdomainSessions' \ DOMAIN subdomainSessions :
              /\ subdomainSessions'[token].tenantId \in TenantIds
              /\ HasPassword(subdomainSessions'[token].tenantId)
              /\ resp'.op = "login" /\ resp'.status = "200"]_vars

\* a login for a tenant that holds the label and has no password has just
\* been answered 401, and no token has been minted
C28_Witness ==
    /\ resp.op = "login" /\ resp.status = "401"
    /\ resp.tenant \in TenantIds
    /\ HasLabel(resp.tenant) /\ ~HasPassword(resp.tenant)
    /\ issued = <<>>

(***************************************************************************)
(* C29: the frame of POST /api/tenant/domain.  An accepted call sets the   *)
(* caller's customDomain and subdomain to the supplied values (null for a  *)
(* field that is left out) and its domainVerified to false; it leaves the  *)
(* caller's apiKey, subdomainPassword and name, the record of every other  *)
(* tenant and the Session Store as they were.  A rejected call changes     *)
(* neither the directory nor the store.                                    *)
(***************************************************************************)
C29_DomainCallFrame ==
    [][\A key \in {Key(k) : k \in 1..MaxTenants},
          customDomain \in RaceDomains \cup {BadDomain},
          subdomain \in RaceLabels \cup {BadLabel} :
           (resp'.op = "domain" /\ SetDomain(key, customDomain, subdomain)) =>
               /\ subdomainSessions' = subdomainSessions
               /\ IF resp'.status = "200"
                  THEN \E t \in FindByApiKey(key) :
                         /\ Len(tenants') = Len(tenants)
                         /\ tenants'[t].customDomain = customDomain
                         /\ tenants'[t].subdomain = subdomain
                         /\ tenants'[t].domainVerified = FALSE
                         /\ tenants'[t].apiKey = tenants[t].apiKey
                         /\ tenants'[t].subdomainPassword = tenants[t].subdomainPassword
                         /\ tenants'[t].name = tenants[t].name
                         /\ \A u \in (1..Len(tenants)) \ {t} : tenants'[u] = tenants[u]
                  ELSE tenants' = tenants]_vars

\* a domain call of a tenant that has a password has just been accepted; the
\* tenant holds a label and is not verified, another tenant is still
\* verified, and the Session Store still holds a session
C29_Witness ==
    /\ resp.op = "domain" /\ resp.status = "200"
    /\ subdomainSessions # <<>>
    /\ \E t \in TenantIds, u \in TenantIds :
           /\ t # u
           /\ HasLabel(t) /\ HasPassword(t) /\ ~tenants[t].domainVerified
           /\ tenants[u].domainVerified

(***************************************************************************)
(* C30: POST /api/tenant/subdomain-password answers a missing password or  *)
(* one shorter than 6 characters with an error and leaves the directory    *)
(* unchanged (first conjunct); so a tenant that has a subdomain password   *)
(* keeps having one through every call of the directory routes, as long    *)
(* as its record exists (second conjunct).                                 *)
(***************************************************************************)
C30_PasswordNeverUnset ==
    [][/\ \A key \in {Key(k) : k \in 1..MaxTenants},
             password \in {pwShort, pwEmpty, Null} :
               (resp'.op = "password" /\ SetSubdomainPassword(key, password)) =>
                   /\ resp'.status \in {"400", "401"}
                   /\ tenants' = tenants
       /\ \A t \in TenantIds :
               (HasPassword(t) /\ t \in TenantIds') => HasPassword(t)']_vars

\* every tenant has a password, and a password call with a key of one of
\* them has just been answered 400
C30_Witness ==
    /\ resp.op = "password" /\ resp.status = "400"
    /\ TenantIds # {}
    /\ \A t \in TenantIds : HasPassword(t)

====
